---- MODULE Spec2Model ----
(***************************************************************************)
(* Model of .github/scripts/translate.py, the DeepL auto-translation       *)
(* script of TheReanimator.                                                *)
(*                                                                         *)
(* Text (str) is a sequence of one-character strings.  A JSON value is a   *)
(* node: [t |-> "str", s |-> text], [t |-> "null"] (Python None) or        *)
(* [t |-> "dict", d |-> dict].  A Python dict is a sequence of entries     *)
(* [k |-> key, v |-> value] with pairwise different keys, in insertion     *)
(* order, which is the order Python iterates it in.                        *)
(***************************************************************************)
EXTENDS Integers, Sequences, FiniteSets, TLC

(* ------------------------------ text ---------------------------------- *)

None == [t |-> "null"]

StrNode(s) == [t |-> "str", s |-> s]

DictNode(d) == [t |-> "dict", d |-> d]

Whitespace == {" ", "\t"}

\* str.strip(): leading and trailing whitespace removed.
RECURSIVE lstrip(_)
lstrip(s) ==
  IF s # <<>> /\ Head(s) \in Whitespace THEN lstrip(Tail(s)) ELSE s

RECURSIVE rstrip(_)
rstrip(s) ==
  IF s # <<>> /\ s[Len(s)] \in Whitespace THEN rstrip(SubSeq(s, 1, Len(s) - 1)) ELSE s

strip(s) == rstrip(lstrip(s))

startswith(s, p) == Len(s) >= Len(p) /\ SubSeq(s, 1, Len(p)) = p

endswith(s, p) == Len(s) >= Len(p) /\ SubSeq(s, Len(s) - Len(p) + 1, Len(s)) = p

\* p in s (substring test).
Contains(s, p) ==
  \E i \in 1..(Len(s) - Len(p) + 1) : SubSeq(s, i, i + Len(p) - 1) = p

\* str.split('.'): always at least one part; "" splits to [""].
RECURSIVE split(_)
split(s) ==
  IF \E i \in 1..Len(s) : s[i] = "."
  THEN LET i == CHOOSE j \in 1..Len(s) : s[j] = "." /\ \A m \in 1..(j - 1) : s[m] # "."
       IN  <<SubSeq(s, 1, i - 1)>> \o split(SubSeq(s, i + 1, Len(s)))
  ELSE <<s>>

\* str(value) of a leaf: a string is itself, None prints as "None".
str(v) == IF v.t = "str" THEN v.s ELSE <<"N", "o", "n", "e">>

(* ------------------------------ dict ---------------------------------- *)

DictHas(d, k) == \E i \in 1..Len(d) : d[i].k = k

\* d[k], for a key the dict has.
DictGet(d, k) == d[CHOOSE i \in 1..Len(d) : d[i].k = k].v

\* d.get(k): None for a key the dict lacks.
DictGetOrNone(d, k) == IF DictHas(d, k) THEN DictGet(d, k) ELSE None

\* d[k] = v: an existing key keeps its place, a new key goes last.
DictSet(d, k, v) ==
  IF DictHas(d, k)
  THEN [i \in 1..Len(d) |-> IF d[i].k = k THEN [k |-> k, v |-> v] ELSE d[i]]
  ELSE Append(d, [k |-> k, v |-> v])

\* d.update(e)
RECURSIVE DictUpdate(_, _)
DictUpdate(d, e) ==
  IF e = <<>> THEN d ELSE DictUpdate(DictSet(d, Head(e).k, Head(e).v), Tail(e))

DictKeys(d) == {d[i].k : i \in 1..Len(d)}

\* Python's d1 == d2: the same keys with equal values, whatever the order.
RECURSIVE NodeEq(_, _)
NodeEq(a, b) ==
  IF a.t # b.t THEN FALSE
  ELSE IF a.t = "dict"
       THEN /\ DictKeys(a.d) = DictKeys(b.d)
            /\ \A k \in DictKeys(a.d) : NodeEq(DictGet(a.d, k), DictGet(b.d, k))
       ELSE a = b

DictEq(d, e) == NodeEq(DictNode(d), DictNode(e))

(* ------------------------- translate.py helpers ----------------------- *)

\* Stand-in for hashlib.md5(text).hexdigest()[:8]: a positional checksum of
\* the text cut to a fixed width (16 bits here, so that the arithmetic stays
\* inside TLC's integers).  Different texts may share a hash, as with MD5[:8].
CharCode(c) ==
  CASE c = "a" -> 97 [] c = "b" -> 98 [] c = "x" -> 120 [] c = "y" -> 121
    [] c = "_" -> 95 [] c = " " -> 32 [] c = "." -> 46 [] c = "N" -> 78
    [] c = "o" -> 111 [] c = "n" -> 110 [] c = "e" -> 101 [] OTHER -> 63

RECURSIVE Digest(_, _)
Digest(h, s) ==
  IF s = <<>> THEN h ELSE Digest((h * 31 + CharCode(Head(s))) % 65536, Tail(s))

\* The hash as the ledger stores it (a non-empty string in the code).
get_hash(text) == [t |-> "md5", h |-> Digest(7, text)]

\* Python truthiness of hashes.get(key): None is false, a stored hash is true.
Truthy(v) == v # None

get_nested_value(obj, path) ==
  LET keys == split(path)
      walk[i \in 0..Len(keys)] ==
        IF i = 0 THEN DictNode(obj)
        ELSE LET current == walk[i - 1]
             IN  IF current.t = "dict" /\ DictHas(current.d, keys[i])
                 THEN DictGet(current.d, keys[i])
                 ELSE None
  IN  walk[Len(keys)]

\* The flattener forgetting the prefix below the top level.
RECURSIVE collect_all_keys_NoPrefix(_, _)
collect_all_keys_NoPrefix(data, prefix) ==
  IF data = <<>> THEN <<>>
  ELSE LET first == IF Head(data).v.t = "dict"
                    THEN collect_all_keys_NoPrefix(Head(data).v.d, Head(data).k)
                    ELSE <<[k |-> Head(data).k, v |-> Head(data).v]>>
       IN  DictUpdate(first, collect_all_keys_NoPrefix(Tail(data), prefix))

RECURSIVE collect_all_keys(_, _)
collect_all_keys(data, prefix) ==
  IF data = <<>> THEN <<>>
  ELSE LET key == Head(data).k
           value == Head(data).v
           current_path == IF prefix # <<>> THEN prefix \o <<".">> \o key ELSE key
           first == IF value.t = "dict"
                    THEN collect_all_keys(value.d, current_path)
                    ELSE <<[k |-> current_path, v |-> value]>>
       IN  DictUpdate(first, collect_all_keys(Tail(data), prefix))

\* The DeepL service's answer for a text it translates: opaque to the script,
\* modelled as the text tagged with the two language codes.
DeepLResult(text, target_lang, source_lang) == <<source_lang, ">", target_lang, ":">> \o text

\* What deepl_client.translate_text does on one call: answer, or raise.
ApiOutcomes == {"ok", "DeepLException", "Exception"}

\* translate_text returning "" when the API raises, instead of the text.
translate_text_EmptyOnError(text, target_lang, source_lang, outcome) ==
  IF strip(text) = <<>> THEN [text |-> text, api |-> FALSE]
  ELSE IF startswith(text, <<"_", "_">>) /\ endswith(text, <<"_", "_">>)
  THEN [text |-> text, api |-> FALSE]
  ELSE IF outcome = "ok"
  THEN [text |-> DeepLResult(text, target_lang, source_lang), api |-> TRUE]
  ELSE [text |-> <<>>, api |-> TRUE]

\* translate_text testing "not text" where the code tests "not text.strip()".
translate_text_NoStrip(text, target_lang, source_lang, outcome) ==
  IF text = <<>> THEN [text |-> text, api |-> FALSE]
  ELSE IF startswith(text, <<"_", "_">>) /\ endswith(text, <<"_", "_">>)
  THEN [text |-> text, api |-> FALSE]
  ELSE IF outcome = "ok"
  THEN [text |-> DeepLResult(text, target_lang, source_lang), api |-> TRUE]
  ELSE [text |-> text, api |-> TRUE]

\* translate_text with the API's behaviour on this call as a parameter:
\* text is what it returns, api whether deepl_client.translate_text was called.
translate_text(text, target_lang, source_lang, outcome) ==
  IF strip(text) = <<>> THEN [text |-> text, api |-> FALSE]
  ELSE IF startswith(text, <<"_", "_">>) /\ endswith(text, <<"_", "_">>)
  THEN [text |-> text, api |-> FALSE]
  ELSE IF outcome = "ok"
  THEN [text |-> DeepLResult(text, target_lang, source_lang), api |-> TRUE]
  ELSE [text |-> text, api |-> TRUE]

\* The path walk replacing every intermediate object by a new one.
RECURSIVE SetPath_FreshObjects(_, _, _)
SetPath_FreshObjects(current, parts, translated) ==
  IF Len(parts) = 1 THEN DictSet(current, parts[1], translated)
  ELSE DictSet(current, Head(parts),
               DictNode(SetPath_FreshObjects(<<>>, Tail(parts), translated)))

\* Lines 281-291: walk parts[:-1] creating (or replacing a non-dict by) an
\* empty dict at each step, then set the last part to the translated text.
RECURSIVE SetPath(_, _, _)
SetPath(current, parts, translated) ==
  IF Len(parts) = 1 THEN DictSet(current, parts[1], translated)
  ELSE LET part == Head(parts)
           child == IF DictHas(current, part) /\ DictGet(current, part).t = "dict"
                    THEN DictGet(current, part).d
                    ELSE <<>>
       IN  DictSet(current, part, DictNode(SetPath(child, Tail(parts), translated)))

MergeKey(target_data, full_path, translated) ==
  SetPath(target_data, split(full_path), translated)

(* --------------------------- configuration ---------------------------- *)

de == <<"d", "e">>
en == <<"e", "n">>
fr == <<"f", "r">>
ko == <<"k", "o">>

LowerCase == {"a", "b", "c", "d", "e", "f", "k", "n", "o", "r", "u", "x", "y", "z"}

\* DEEPL_LANG_CODES.get(locale), "" (false, like None) for a locale the table lacks.  Of the
\* table's eleven entries the model keeps those of the locales it uses; "de"
\* and "ko" are not in the table.
DEEPL_LANG_CODES(locale) ==
  CASE locale = en -> "EN-US"
    [] locale = fr -> "FR"
    [] locale = <<"r", "u">> -> "RU"
    [] OTHER -> ""

\* default_locale.upper()
upper(locale) ==
  CASE locale = de -> "DE" [] locale = en -> "EN" [] locale = fr -> "FR"
    [] locale = ko -> "KO" [] OTHER -> "??"

(* routing.ts as the two regular expressions see it: the file is a sequence
   of declarations.  [name |-> "locales", items |-> <<item, ...>>] is
   "locales: [ ... ]" with the quoted items between the brackets, an item
   being [q |-> quote character, s |-> text]; [name |-> "defaultLocale",
   q |-> quote character, s |-> text] is "defaultLocale: <q>text<q>". *)
Item(s) == [q |-> "'", s |-> s]

\* '([a-z]{2})' matches an item: single quotes around two lower-case letters.
IsLocaleItem(item) ==
  /\ item.q = "'"
  /\ Len(item.s) = 2
  /\ \A i \in 1..2 : item.s[i] \in LowerCase

\* re.search(r"locales\s*:\s*\[([^\]]+)\]", content): the index of the first
\* locales declaration with something between its brackets, 0 for no match.
SearchLocales(content) ==
  IF \E i \in 1..Len(content) : content[i].name = "locales" /\ content[i].items # <<>>
  THEN CHOOSE i \in 1..Len(content) :
         /\ content[i].name = "locales" /\ content[i].items # <<>>
         /\ \A j \in 1..(i - 1) : ~(content[j].name = "locales" /\ content[j].items # <<>>)
  ELSE 0

RECURSIVE FindAllLocales(_)
FindAllLocales(items) ==
  IF items = <<>> THEN <<>>
  ELSE (IF IsLocaleItem(Head(items)) THEN <<Head(items).s>> ELSE <<>>)
       \o FindAllLocales(Tail(items))

\* get_locales_from_routing answering [] where the array is not found.
get_locales_from_routing_EmptyList(routing) ==
  IF ~routing.exists THEN [exit |-> 1, locales |-> <<>>]
  ELSE IF SearchLocales(routing.content) = 0 THEN [exit |-> 0, locales |-> <<>>]
  ELSE [exit |-> 0,
        locales |-> FindAllLocales(routing.content[SearchLocales(routing.content)].items)]

\* get_locales_from_routing: exit 1 for a missing file or a missing array,
\* else the list of locale codes.
get_locales_from_routing(routing) ==
  IF ~routing.exists THEN [exit |-> 1, locales |-> <<>>]
  ELSE IF SearchLocales(routing.content) = 0 THEN [exit |-> 1, locales |-> <<>>]
  ELSE [exit |-> 0,
        locales |-> FindAllLocales(routing.content[SearchLocales(routing.content)].items)]

\* re.search(r"defaultLocale\s*:\s*'([a-z]{2})'", content)
IsDefaultDecl(decl) ==
  /\ decl.name = "defaultLocale"
  /\ decl.q = "'"
  /\ Len(decl.s) = 2
  /\ \A i \in 1..2 : decl.s[i] \in LowerCase

\* get_default_locale: the first matching declaration, "de" without one.
get_default_locale(routing) ==
  IF \E i \in 1..Len(routing.content) : IsDefaultDecl(routing.content[i])
  THEN routing.content[CHOOSE i \in 1..Len(routing.content) :
         /\ IsDefaultDecl(routing.content[i])
         /\ \A j \in 1..(i - 1) : ~IsDefaultDecl(routing.content[j])].s
  ELSE de

\* The target locales without the filter on the default locale.
TargetLocales_Unfiltered(all_locales, default_locale) == all_locales

\* target_locales = [loc for loc in all_locales if loc != default_locale]
RECURSIVE TargetLocales(_, _)
TargetLocales(all_locales, default_locale) ==
  IF all_locales = <<>> THEN <<>>
  ELSE (IF Head(all_locales) # default_locale THEN <<Head(all_locales)>> ELSE <<>>)
       \o TargetLocales(Tail(all_locales), default_locale)

(* ------------------------ change detection ---------------------------- *)

\* Lines 222-230: the hashes after the pass over src_keys, and the number of
\* keys whose stored hash differed.
RECURSIVE ScanHashes(_, _, _)
ScanHashes(hashes, changed_keys, src_keys) ==
  IF src_keys = <<>> THEN [hashes |-> hashes, changed_keys |-> changed_keys]
  ELSE LET key_path == Head(src_keys).k
           current_hash == get_hash(str(Head(src_keys).v))
           stored_hash == DictGetOrNone(hashes, key_path)
       IN  IF stored_hash # current_hash
           THEN ScanHashes(DictSet(hashes, key_path, current_hash),
                           IF stored_hash # None THEN changed_keys + 1 ELSE changed_keys,
                           Tail(src_keys))
           ELSE ScanHashes(hashes, changed_keys, Tail(src_keys))

\* The batch without the keys the target catalog lacks.
RECURSIVE FindMissingOrChanged_SkipsMissing(_, _, _)
FindMissingOrChanged_SkipsMissing(src_keys, target_data, hashes) ==
  IF src_keys = <<>> THEN <<>>
  ELSE LET key_path == Head(src_keys).k
           entry == IF get_nested_value(target_data, key_path) = None
                    THEN <<>>
                    ELSE IF Truthy(DictGetOrNone(hashes, key_path))
                    THEN <<[path |-> key_path, value |-> Head(src_keys).v,
                            reason |-> "changed"]>>
                    ELSE <<>>
       IN  entry \o FindMissingOrChanged_SkipsMissing(Tail(src_keys), target_data, hashes)

\* Lines 249-264: the batch of (key_path, value, reason) for one locale.
RECURSIVE FindMissingOrChanged(_, _, _)
FindMissingOrChanged(src_keys, target_data, hashes) ==
  IF src_keys = <<>> THEN <<>>
  ELSE LET key_path == Head(src_keys).k
           value == Head(src_keys).v
           target_value == get_nested_value(target_data, key_path)
           entry == IF target_value = None
                    THEN <<[path |-> key_path, value |-> value, reason |-> "missing"]>>
                    ELSE IF Truthy(DictGetOrNone(hashes, key_path))
                    THEN <<[path |-> key_path, value |-> value, reason |-> "changed"]>>
                    ELSE <<>>
       IN  entry \o FindMissingOrChanged(Tail(src_keys), target_data, hashes)

(* ------------------------------ inputs -------------------------------- *)

E(k, v) == [k |-> k, v |-> v]

Leaf(s) == StrNode(s)

NoFile == [exists |-> FALSE, data |-> <<>>]

File(d) == [exists |-> TRUE, data |-> d]

ka == <<"a">>
kb == <<"b">>
kx == <<"x">>
ky == <<"y">>

\* Runs of the script the model follows, one after another.
MaxRuns == 2

\* Translation calls that raise, over all runs.
MaxApiErrors == 1

\* Edits of the source catalog between runs.
MaxEdits == 1

ApiKeys == {None, StrNode(<<>>), StrNode(<<"k", ":", "f", "x">>), StrNode(<<"k">>)}

RoutingMain ==
  [exists |-> TRUE,
   content |-> << [name |-> "locales", items |-> <<Item(de), Item(en), Item(ko), Item(fr)>>],
                  [name |-> "defaultLocale", q |-> "'", s |-> de] >>]

RoutingEn ==
  [exists |-> TRUE,
   content |-> << [name |-> "defaultLocale", q |-> "'", s |-> en],
                  [name |-> "locales", items |-> <<Item(en), Item(de), Item(fr)>>] >>]

RoutingAbsent == [exists |-> FALSE, content |-> <<>>]

\* "locales: []" and no other array: the first pattern finds nothing.
RoutingNoLocales ==
  [exists |-> TRUE,
   content |-> << [name |-> "locales", items |-> <<>>],
                  [name |-> "defaultLocale", q |-> "'", s |-> de] >>]

\* defaultLocale: "en" in double quotes, and an item that is no two-letter code.
RoutingNoDefault ==
  [exists |-> TRUE,
   content |-> << [name |-> "locales",
                   items |-> <<Item(de), Item(<<"e", "n", "-", "U", "S">>), Item(en)>>],
                  [name |-> "defaultLocale", q |-> "\"", s |-> en] >>]

RoutingOnlyDefault ==
  [exists |-> TRUE,
   content |-> << [name |-> "locales", items |-> <<Item(de)>>],
                  [name |-> "defaultLocale", q |-> "'", s |-> de] >>]

Routings ==
  {RoutingMain, RoutingEn, RoutingAbsent, RoutingNoLocales, RoutingNoDefault,
   RoutingOnlyDefault}

\* {"a": {"b": "ab"}, "x": "__x__", "y": " "}
SrcNested ==
  << E(ka, DictNode(<<E(kb, Leaf(<<"a", "b">>))>>)),
     E(kx, Leaf(<<"_", "_", "x", "_", "_">>)),
     E(ky, Leaf(<<" ">>)) >>

\* {"a": {"b": "ba"}, "x": "__x__"}: a.b changed, y removed.
SrcEdited ==
  << E(ka, DictNode(<<E(kb, Leaf(<<"b", "a">>))>>)),
     E(kx, Leaf(<<"_", "_", "x", "_", "_">>)) >>

\* {"a": "ab", "b": null}
SrcFlat == << E(ka, Leaf(<<"a", "b">>)), E(kb, None) >>

\* {"a.b": "y", "a": "x"}: a key with a dot in it, whose path extends "a".
SrcDotted == << E(<<"a", ".", "b">>, Leaf(<<"y">>)), E(ka, Leaf(<<"x">>)) >>

\* {"a": {"b": "old", "y": "keep"}, "z": "keep"}
TgtPartial ==
  << E(ka, DictNode(<<E(kb, Leaf(<<"o">>)), E(ky, Leaf(<<"k">>))>>)),
     E(<<"z">>, Leaf(<<"k">>)) >>

\* {"a": "leaf", "y": null}
TgtLeaf == << E(ka, Leaf(<<"l">>)), E(ky, None) >>

TargetFiles == {NoFile, File(<<>>), File(TgtPartial), File(TgtLeaf)}

(* ------------------------------- state -------------------------------- *)

VARIABLES
  DEEPL_API_KEY,       \* the environment variable: None or a string
  routing,             \* src/i18n/routing.ts
  files,               \* src/messages/<locale>.json, by locale
  ledger,              \* src/messages/.translation_hashes.json
  pc,                  \* where the run is
  exitCode,            \* the process's exit status once it has ended
  deepl_client,        \* "" or the server the client talks to
  all_locales, default_locale, target_locales,
  hashes, src_keys, changed_keys, total_translations,
  li,                  \* index of target_locale in target_locales
  target_data, missing_or_changed,
  ki,                  \* index of the batch entry being translated
  trace,               \* this run's batches, translate steps and file writes, in order
  pre,                 \* the files and the ledger as the run found them
  runs, apiErrors, edits,
  rt                   \* the flatten / re-merge harness of SpecRoundTrip

\* What no action of a run changes.
env == <<DEEPL_API_KEY, routing, rt>>

locals ==
  <<deepl_client, all_locales, default_locale, target_locales, hashes, src_keys,
    changed_keys, total_translations, li, target_data, missing_or_changed, ki>>

vars == <<env, files, ledger, pc, exitCode, locals, trace, pre, runs, apiErrors, edits, rt>>

FreshLocals ==
  /\ deepl_client = ""
  /\ all_locales = <<>>
  /\ default_locale = <<>>
  /\ target_locales = <<>>
  /\ hashes = <<>>
  /\ src_keys = <<>>
  /\ changed_keys = 0
  /\ total_translations = 0
  /\ li = 1
  /\ target_data = <<>>
  /\ missing_or_changed = <<>>
  /\ ki = 1

GoodKey == StrNode(<<"k", ":", "f", "x">>)

\* The starting points: the catalogs vary where a run gets to them, and the
\* credential and the routing file vary over one set of catalogs.
Scenarios ==
  {[key |-> GoodKey, routing |-> RoutingMain, de |-> File(s), en |-> t1, fr |-> t2] :
     s \in {SrcNested, SrcFlat, SrcDotted}, t1 \in TargetFiles,
     t2 \in {NoFile, File(TgtPartial)}}
  \cup
  {[key |-> GoodKey, routing |-> RoutingEn, de |-> d, en |-> e, fr |-> NoFile] :
     d \in {NoFile, File(SrcNested)}, e \in {NoFile, File(SrcFlat)}}
  \cup
  {[key |-> k, routing |-> r, de |-> File(SrcNested), en |-> File(TgtPartial), fr |-> NoFile] :
     k \in ApiKeys, r \in Routings}

\* The round-trip harness at rest.
RtIdle ==
  [phase |-> "off", tree |-> <<>>, flat |-> <<>>, i |-> 1, empty |-> <<>>, self |-> <<>>,
   once |-> <<>>]

Init ==
  /\ \E sc \in Scenarios :
       /\ DEEPL_API_KEY = sc.key
       /\ routing = sc.routing
       /\ files = [l \in {de, en, fr, ko} |->
                     IF l = de THEN sc.de ELSE IF l = en THEN sc.en
                     ELSE IF l = fr THEN sc.fr ELSE NoFile]
  /\ ledger = NoFile
  /\ pc = "boot"
  /\ exitCode = -1
  /\ FreshLocals
  /\ trace = <<>>
  /\ pre = [files |-> files, ledger |-> ledger]
  /\ runs = 1
  /\ apiErrors = 0
  /\ edits = 0
  /\ rt = RtIdle

(* ------------------------------ actions ------------------------------- *)

\* A run is going on.
Running == pc \in {"boot", "main", "namespaces", "scan", "locale", "translate", "save_hashes"}

Emit(ev, locale, path, outcome) ==
  trace' = Append(trace, [ev |-> ev, locale |-> locale, path |-> path, outcome |-> outcome])

Exit(code) ==
  /\ pc' = "done"
  /\ exitCode' = code

\* The pc after target locale number i - 1: the next locale, or past the loop.
AfterLocale(locales, i) == IF i > Len(locales) THEN "save_hashes" ELSE "locale"

\* Lines 31-42: the credential check and the client, at import time.
CheckCredential ==
  /\ pc = "boot"
  /\ IF DEEPL_API_KEY = None \/ DEEPL_API_KEY.s = <<>>
     THEN /\ Exit(1)
          /\ UNCHANGED deepl_client
     ELSE /\ deepl_client' = IF Contains(DEEPL_API_KEY.s, <<":", "f", "x">>)
                             THEN "library default"
                             ELSE "https://api-free.deepl.com"
          /\ pc' = "main"
          /\ UNCHANGED exitCode
  /\ UNCHANGED <<env, files, ledger, all_locales, default_locale, target_locales, hashes,
                 src_keys, changed_keys, total_translations, li, target_data,
                 missing_or_changed, ki, trace, pre, runs, apiErrors, edits>>

\* Lines 178-192: the locales, the default locale and the target locales.
ReadRouting ==
  /\ pc = "main"
  /\ LET got == get_locales_from_routing(routing)
         dflt == get_default_locale(routing)
         targets == TargetLocales(got.locales, dflt)
     IN  IF got.exit # 0
         THEN /\ Exit(got.exit)
              /\ UNCHANGED <<all_locales, default_locale, target_locales>>
         ELSE /\ all_locales' = got.locales
              /\ default_locale' = dflt
              /\ target_locales' = targets
              /\ IF targets = <<>> THEN Exit(0) ELSE pc' = "namespaces" /\ UNCHANGED exitCode
  /\ UNCHANGED <<env, files, ledger, deepl_client, hashes, src_keys, changed_keys,
                 total_translations, li, target_data, missing_or_changed, ki, trace, pre,
                 runs, apiErrors, edits>>

\* get_all_namespaces: ["messages"] when de.json is there, [] otherwise.
get_all_namespaces(fs) == IF ~fs[de].exists THEN <<>> ELSE <<"messages">>

\* load_hashes starting every run from an empty ledger.
load_hashes_Empty(file) == <<>>

\* load_hashes: the ledger file's content, {} without a readable file.
load_hashes(file) == IF file.exists THEN file.data ELSE <<>>

\* Lines 195-203: the namespaces and the stored hashes.
LoadHashes ==
  /\ pc = "namespaces"
  /\ IF get_all_namespaces(files) = <<>>
     THEN /\ Exit(0)
          /\ UNCHANGED hashes
     ELSE /\ hashes' = load_hashes(ledger)
          /\ pc' = "scan"
          /\ UNCHANGED exitCode
  /\ UNCHANGED <<env, files, ledger, deepl_client, all_locales, default_locale,
                 target_locales, src_keys, changed_keys, total_translations, li,
                 target_data, missing_or_changed, ki, trace, pre, runs, apiErrors, edits>>

\* Lines 205-230: the source catalog flattened, and its hashes recorded.
ScanSource ==
  /\ pc = "scan"
  /\ IF ~files[default_locale].exists
     THEN /\ pc' = "save_hashes"
          /\ UNCHANGED <<src_keys, hashes, changed_keys>>
     ELSE LET keys == collect_all_keys(files[default_locale].data, <<>>)
              scanned == ScanHashes(hashes, changed_keys, keys)
          IN  /\ src_keys' = keys
              /\ hashes' = scanned.hashes
              /\ changed_keys' = scanned.changed_keys
              /\ pc' = AfterLocale(target_locales, 1)
  /\ li' = 1
  /\ UNCHANGED <<env, files, ledger, exitCode, deepl_client, all_locales, default_locale,
                 target_locales, total_translations, target_data, missing_or_changed, ki,
                 trace, pre, runs, apiErrors, edits>>

\* Lines 242-246: the target catalog, {} when the file cannot be read.
LoadTarget(file) == IF file.exists THEN file.data ELSE <<>>

\* Lines 232-274: one target locale up to its batch.
BeginLocale ==
  /\ pc = "locale"
  /\ li <= Len(target_locales)
  /\ LET target_locale == target_locales[li]
         dl_lang_code == DEEPL_LANG_CODES(target_locale)
         data == LoadTarget(files[target_locale])
         batch == FindMissingOrChanged(src_keys, data, hashes)
     IN  IF dl_lang_code = ""
         THEN /\ li' = li + 1
              /\ pc' = AfterLocale(target_locales, li + 1)
              /\ Emit("unsupported", target_locale, <<>>, "")
              /\ UNCHANGED <<target_data, missing_or_changed, ki>>
         ELSE /\ target_data' = data
              /\ missing_or_changed' = batch
              /\ ki' = 1
              /\ Emit("batch", target_locale, [i \in 1..Len(batch) |-> batch[i].path], "")
              /\ IF batch = <<>>
                 THEN li' = li + 1 /\ pc' = AfterLocale(target_locales, li + 1)
                 ELSE li' = li /\ pc' = "translate"
  /\ UNCHANGED <<env, files, ledger, exitCode, deepl_client, all_locales, default_locale,
                 target_locales, hashes, src_keys, changed_keys, total_translations, pre,
                 runs, apiErrors, edits>>

\* Lines 277-295: one key of the batch translated and merged.
TranslateKey ==
  /\ pc = "translate"
  /\ ki <= Len(missing_or_changed)
  /\ LET target_locale == target_locales[li]
         full_path == missing_or_changed[ki].path
         text == str(missing_or_changed[ki].value)
     IN  \E outcome \in ApiOutcomes :
           LET result == translate_text(text, DEEPL_LANG_CODES(target_locale),
                                        upper(default_locale), outcome)
           IN  /\ outcome # "ok" => (result.api /\ apiErrors < MaxApiErrors)
               /\ target_data' = MergeKey(target_data, full_path, StrNode(result.text))
               /\ Emit(IF result.api THEN "api" ELSE "skip", target_locale, full_path, outcome)
               /\ apiErrors' = IF outcome # "ok" THEN apiErrors + 1 ELSE apiErrors
  /\ ki' = ki + 1
  /\ total_translations' = total_translations + 1
  /\ UNCHANGED <<env, files, ledger, pc, exitCode, deepl_client, all_locales,
                 default_locale, target_locales, hashes, src_keys, changed_keys, li,
                 missing_or_changed, pre, runs, edits>>

\* The catalog written together with the ledger.
SaveCatalog_WithLedger ==
  /\ pc = "translate"
  /\ ki > Len(missing_or_changed)
  /\ files' = [files EXCEPT ![target_locales[li]] = File(target_data)]
  /\ ledger' = File(hashes)
  /\ Emit("write", target_locales[li], <<>>, "")
  /\ li' = li + 1
  /\ pc' = AfterLocale(target_locales, li + 1)
  /\ UNCHANGED <<env, exitCode, deepl_client, all_locales, default_locale,
                 target_locales, hashes, src_keys, changed_keys, total_translations,
                 target_data, missing_or_changed, ki, pre, runs, apiErrors, edits>>

\* Lines 297-302: the target catalog written, and on to the next locale.
SaveCatalog ==
  /\ pc = "translate"
  /\ ki > Len(missing_or_changed)
  /\ files' = [files EXCEPT ![target_locales[li]] = File(target_data)]
  /\ Emit("write", target_locales[li], <<>>, "")
  /\ li' = li + 1
  /\ pc' = AfterLocale(target_locales, li + 1)
  /\ UNCHANGED <<env, ledger, exitCode, deepl_client, all_locales, default_locale,
                 target_locales, hashes, src_keys, changed_keys, total_translations,
                 target_data, missing_or_changed, ki, pre, runs, apiErrors, edits>>

\* Lines 306-312: save_hashes, and the run ends.
SaveHashes ==
  /\ pc = "save_hashes"
  /\ ledger' = File(hashes)
  /\ Emit("ledger", <<>>, <<>>, "")
  /\ Exit(0)
  /\ UNCHANGED <<env, files, locals, pre, runs, apiErrors, edits>>

\* The process is killed somewhere before its end.
Crash ==
  /\ Running
  /\ pc' = "crashed"
  /\ exitCode' = 137
  /\ UNCHANGED <<env, files, ledger, locals, trace, pre, runs, apiErrors, edits>>

\* Between two runs somebody edits the source catalog de.json.
EditSource ==
  /\ pc \in {"done", "crashed"}
  /\ runs < MaxRuns
  /\ edits < MaxEdits
  /\ \E c \in {SrcNested, SrcEdited} \ {files[de].data} :
       files' = [files EXCEPT ![de] = File(c)]
  /\ edits' = edits + 1
  /\ pc' = "edited"
  /\ UNCHANGED <<env, ledger, exitCode, locals, trace, pre, runs, apiErrors>>

\* The script is started again.
StartRun ==
  /\ pc \in {"done", "crashed", "edited"}
  /\ runs < MaxRuns
  /\ runs' = runs + 1
  /\ pc' = "boot"
  /\ exitCode' = -1
  /\ deepl_client' = ""
  /\ all_locales' = <<>>
  /\ default_locale' = <<>>
  /\ target_locales' = <<>>
  /\ hashes' = <<>>
  /\ src_keys' = <<>>
  /\ changed_keys' = 0
  /\ total_translations' = 0
  /\ li' = 1
  /\ target_data' = <<>>
  /\ missing_or_changed' = <<>>
  /\ ki' = 1
  /\ trace' = <<>>
  /\ pre' = [files |-> files, ledger |-> ledger]
  /\ UNCHANGED <<env, files, ledger, apiErrors, edits>>

Next ==
  \/ CheckCredential
  \/ ReadRouting
  \/ LoadHashes
  \/ ScanSource
  \/ BeginLocale
  \/ TranslateKey
  \/ SaveCatalog
  \/ SaveHashes
  \/ Crash
  \/ EditSource
  \/ StartRun

Spec == Init /\ [][Next]_vars

(* ------------------- flatten and re-merge, on its own ------------------ *)

\* Keys of one dict in the trees tried.
MaxKeys == 2

RtKeys == {<<>>, <<"a">>, <<"a", ".", "a">>}

RtLeaves == {Leaf(<<"u">>)}

\* The sequences of at most n different keys.
KeySeqs(n) ==
  UNION {{ks \in [1..m -> RtKeys] : \A i, j \in 1..m : i # j => ks[i] # ks[j]} : m \in 0..n}

\* The dicts of at most n keys with values from a set.
DictsOver(values, n) ==
  UNION {{[i \in 1..Len(ks) |-> E(ks[i], vs[i])] : vs \in [1..Len(ks) -> values]} :
           ks \in KeySeqs(n)}

\* What a key of the top level maps to: a leaf, or a dict of leaves.
RtValues == RtLeaves \cup {DictNode(d) : d \in DictsOver(RtLeaves, MaxKeys)}

\* No run of the script is going on.
PipelineOff ==
  /\ DEEPL_API_KEY = None
  /\ routing = RoutingAbsent
  /\ files = [l \in {de, en, fr, ko} |-> NoFile]
  /\ ledger = NoFile
  /\ pc = "off"
  /\ exitCode = -1
  /\ FreshLocals
  /\ trace = <<>>
  /\ pre = [files |-> files, ledger |-> ledger]
  /\ runs = 1
  /\ apiErrors = 0
  /\ edits = 0

pipeline ==
  <<DEEPL_API_KEY, routing, files, ledger, pc, exitCode, locals, trace, pre, runs,
    apiErrors, edits>>

InitRoundTrip ==
  /\ PipelineOff
  /\ \E ks \in KeySeqs(MaxKeys) :
       \E vs \in [1..Len(ks) -> RtValues] :
         LET tree == [i \in 1..Len(ks) |-> E(ks[i], vs[i])]
         IN  rt = [RtIdle EXCEPT !.phase = "start", !.tree = tree, !.self = tree]

\* src_keys = collect_all_keys(src_data)
RtFlatten ==
  /\ rt.phase = "start"
  /\ rt' = [rt EXCEPT !.phase = "pass1", !.flat = collect_all_keys(rt.tree, <<>>), !.i = 1]
  /\ UNCHANGED pipeline

\* One (key path, value) pair merged by lines 281-291, into the catalog that
\* started empty and into the one that started as the tree itself.
RtMerge ==
  /\ rt.phase \in {"pass1", "pass2"}
  /\ rt.i <= Len(rt.flat)
  /\ rt' = [rt EXCEPT !.i = rt.i + 1,
                      !.empty = MergeKey(rt.empty, rt.flat[rt.i].k, rt.flat[rt.i].v),
                      !.self = MergeKey(rt.self, rt.flat[rt.i].k, rt.flat[rt.i].v)]
  /\ UNCHANGED pipeline

\* The first pass is over: its results are kept and the pairs are merged again.
RtAgain ==
  /\ rt.phase = "pass1"
  /\ rt.i > Len(rt.flat)
  /\ rt' = [rt EXCEPT !.phase = "pass2", !.i = 1, !.once = <<rt.empty, rt.self>>]
  /\ UNCHANGED pipeline

RtFinish ==
  /\ rt.phase = "pass2"
  /\ rt.i > Len(rt.flat)
  /\ rt' = [rt EXCEPT !.phase = "done"]
  /\ UNCHANGED pipeline

NextRoundTrip == RtFlatten \/ RtMerge \/ RtAgain \/ RtFinish

SpecRoundTrip == InitRoundTrip /\ [][NextRoundTrip]_vars

(* ------------------------- vocabulary of the claims -------------------- *)

\* The run went all the way: its last step was save_hashes.
Completed == pc = "done" /\ trace # <<>> /\ trace[Len(trace)].ev = "ledger"

Supported(locale) == DEEPL_LANG_CODES(locale) # ""

\* The target locales of this run, from the routing file.
RoutedTargets ==
  {l \in {de, en, fr, ko} :
     /\ \E i \in 1..Len(get_locales_from_routing(routing).locales) :
          get_locales_from_routing(routing).locales[i] = l
     /\ l # get_default_locale(routing)}

\* The catalog of a locale as the run found it, and the source catalog flattened.
PreTarget(locale) == LoadTarget(pre.files[locale])

SourceKeys == collect_all_keys(LoadTarget(pre.files[get_default_locale(routing)]), <<>>)

\* The key paths that resolve to a string in a catalog.
LeafPaths(d) ==
  {p \in DictKeys(collect_all_keys(d, <<>>)) : get_nested_value(d, p).t = "str"}

IsTranslateEvent(e) == e.ev \in {"api", "skip"}

\* The key paths of a locale merged so far in this run.
MergedPaths(locale) ==
  {trace[i].path : i \in {j \in 1..Len(trace) :
                            IsTranslateEvent(trace[j]) /\ trace[j].locale = locale}}

\* The batch of a locale in this run, as key paths ({} before it is formed).
BatchOf(locale) ==
  UNION {{trace[i].path[n] : n \in 1..Len(trace[i].path)} :
           i \in {j \in 1..Len(trace) : trace[j].ev = "batch" /\ trace[j].locale = locale}}

Written(locale) == \E i \in 1..Len(trace) : trace[i].ev = "write" /\ trace[i].locale = locale

\* One key path is the other, or continues it after a dot.
Related(p, q) == startswith(split(p), split(q)) \/ startswith(split(q), split(p))

ProperPrefix(p, q) == p # q /\ startswith(split(q), split(p))

\* No translate step after step i of the trace touched a path related to its own.
Undisturbed(i) ==
  \A j \in (i + 1)..Len(trace) :
    ~(/\ IsTranslateEvent(trace[j])
      /\ trace[j].locale = trace[i].locale
      /\ Related(trace[j].path, trace[i].path))

(* ------------------------------- claims -------------------------------- *)

\* C1: a source key path whose current value hash equals the hash the ledger
\* held at the start of the run, and which already has a value in the target
\* locale's catalog, is not placed in that locale's translation batch.
C1_UnchangedKeyNotInBatch ==
  pc = "translate" =>
    \A i \in 1..Len(missing_or_changed) :
      ~(/\ DictGetOrNone(pre.ledger.data, missing_or_changed[i].path)
             = get_hash(str(missing_or_changed[i].value))
        /\ get_nested_value(PreTarget(target_locales[li]), missing_or_changed[i].path) # None)

\* C2 as claimed: when a run has completed, for every locale of the routing
\* list other than the default locale, every source key path without a value
\* in that locale's catalog at the start was in the locale's batch and now
\* resolves to a value in the persisted catalog.
C2_EveryLocaleGetsMissingKeys ==
  Completed =>
    \A l \in RoutedTargets :
      \A k \in 1..Len(SourceKeys) :
        get_nested_value(PreTarget(l), SourceKeys[k].k) = None
          => /\ SourceKeys[k].k \in BatchOf(l)
             /\ get_nested_value(LoadTarget(files[l]), SourceKeys[k].k) # None

\* C2 amended: the same for the locales DEEPL_LANG_CODES has a code for.  The
\* batch of the locale being translated holds every source key path missing
\* from its catalog; when the run has completed, every such path was merged,
\* and it resolves to a value in the persisted catalog unless a later source
\* key path is a proper dotted prefix of it.
C2_SupportedLocaleGetsMissingKeys ==
  /\ pc = "translate" =>
       \A k \in 1..Len(SourceKeys) :
         get_nested_value(PreTarget(target_locales[li]), SourceKeys[k].k) = None
           => \E i \in 1..Len(missing_or_changed) :
                missing_or_changed[i].path = SourceKeys[k].k
  /\ Completed =>
       \A l \in {t \in RoutedTargets : Supported(t)} :
         \A k \in 1..Len(SourceKeys) :
           get_nested_value(PreTarget(l), SourceKeys[k].k) = None
             => /\ SourceKeys[k].k \in BatchOf(l)
                /\ SourceKeys[k].k \in MergedPaths(l)
                /\ (\A j \in (k + 1)..Len(SourceKeys) :
                      ~ProperPrefix(SourceKeys[j].k, SourceKeys[k].k))
                     => get_nested_value(LoadTarget(files[l]), SourceKeys[k].k) # None

\* C2 witness: a completed run in which a supported locale's catalog lacked a
\* source key path at the start and has it now.
C2_Witness ==
  /\ Completed
  /\ \E l \in {t \in RoutedTargets : Supported(t)} :
       \E k \in 1..Len(SourceKeys) :
         /\ get_nested_value(PreTarget(l), SourceKeys[k].k) = None
         /\ get_nested_value(LoadTarget(files[l]), SourceKeys[k].k) # None
         /\ Len(split(SourceKeys[k].k)) > 1

\* The batch of the locale being translated, as key paths.
BatchPaths == {missing_or_changed[i].path : i \in 1..Len(missing_or_changed)}

\* C3 as claimed: merging changes only the leaves at the batch's key paths:
\* every other key path that had a value in the target catalog keeps it, in
\* the catalog being merged into and in the file once written.
C3_OtherKeyPathsKept ==
  /\ pc = "translate" =>
       \A p \in LeafPaths(PreTarget(target_locales[li])) \ BatchPaths :
         get_nested_value(target_data, p) = get_nested_value(PreTarget(target_locales[li]), p)
  /\ pc # "off" =>
       \A l \in {t \in RoutedTargets : Written(t)} :
         \A p \in LeafPaths(PreTarget(l)) \ MergedPaths(l) :
           get_nested_value(files[l].data, p) = get_nested_value(PreTarget(l), p)

\* C3 amended: every other key path that had a value in the target catalog and
\* is not related to a batch key path (neither a dotted prefix of one nor a
\* continuation of one) keeps its value.
C3_UnrelatedKeyPathsKept ==
  /\ pc = "translate" =>
       \A p \in LeafPaths(PreTarget(target_locales[li])) :
         (\A q \in BatchPaths : ~Related(p, q))
           => get_nested_value(target_data, p) = get_nested_value(PreTarget(target_locales[li]), p)
  /\ pc # "off" =>
       \A l \in {t \in RoutedTargets : Written(t)} :
         \A p \in LeafPaths(PreTarget(l)) :
           (\A q \in MergedPaths(l) : ~Related(p, q))
             => get_nested_value(files[l].data, p) = get_nested_value(PreTarget(l), p)

\* C3 witness: a catalog was written that had, and still has, a value at a key
\* path beside a merged one (a sibling under the same parent).
C3_Witness ==
  \E l \in {t \in RoutedTargets : Written(t)} :
    \E p \in LeafPaths(PreTarget(l)) :
      /\ \A q \in MergedPaths(l) : ~Related(p, q)
      /\ \E q \in MergedPaths(l) :
           Len(split(q)) > 1 /\ Len(split(p)) > 1 /\ split(q)[1] = split(p)[1]
      /\ get_nested_value(files[l].data, p) = get_nested_value(PreTarget(l), p)

\* The text of the source value at a key path, as translate_text receives it.
SourceText(path) == str(DictGet(src_keys, path))

ApiFailed(e) == e.ev = "api" /\ e.outcome # "ok"

\* C4: when the translation API raises for a key, the source text itself is
\* stored at the key's path in the target catalog; the run still forms the
\* batch of every supported target locale, merges every key of every batch,
\* writes the catalogs and the ledger, and ends with exit status 0.
C4_ApiErrorKeepsSourceText ==
  /\ (trace # <<>> /\ ApiFailed(trace[Len(trace)]))
       => get_nested_value(target_data, trace[Len(trace)].path)
            = StrNode(SourceText(trace[Len(trace)].path))
  /\ (pc = "done" /\ \E i \in 1..Len(trace) : ApiFailed(trace[i]))
       => /\ exitCode = 0
          /\ Completed
          /\ ledger = File(hashes)
          /\ \A l \in {t \in RoutedTargets : Supported(t)} :
               /\ \E j \in 1..Len(trace) : trace[j].ev = "batch" /\ trace[j].locale = l
               /\ BatchOf(l) \subseteq MergedPaths(l)
               /\ BatchOf(l) # {} => Written(l)
          /\ \A i \in 1..Len(trace) :
               (ApiFailed(trace[i]) /\ Undisturbed(i))
                 => get_nested_value(files[trace[i].locale].data, trace[i].path)
                      = StrNode(SourceText(trace[i].path))

\* C4 witness: a run has ended in which the API raised for a key that was not
\* the last key of the last locale.
C4_Witness ==
  /\ pc = "done"
  /\ \E i \in 1..Len(trace) :
       /\ ApiFailed(trace[i])
       /\ \E j \in (i + 1)..Len(trace) : trace[j].ev = "api" /\ trace[j].locale # trace[i].locale

AllWhitespace(text) == \A i \in 1..Len(text) : text[i] \in Whitespace

Wrapped(text) ==
  /\ Len(text) >= 2
  /\ text[1] = "_" /\ text[2] = "_"
  /\ text[Len(text) - 1] = "_" /\ text[Len(text)] = "_"

\* C5: for a source value that is empty or all whitespace, or that starts and
\* ends with "__", no translation API call is made and the target catalog
\* receives the source string as it is.
C5_OpaqueCopiedVerbatim ==
  \A i \in 1..Len(trace) :
    (/\ IsTranslateEvent(trace[i])
     /\ AllWhitespace(SourceText(trace[i].path)) \/ Wrapped(SourceText(trace[i].path)))
      => /\ trace[i].ev = "skip"
         /\ i = Len(trace)
              => get_nested_value(target_data, trace[i].path)
                   = StrNode(SourceText(trace[i].path))
         /\ (Undisturbed(i) /\ \E j \in (i + 1)..Len(trace) :
                                 trace[j].ev = "write" /\ trace[j].locale = trace[i].locale)
              => get_nested_value(files[trace[i].locale].data, trace[i].path)
                   = StrNode(SourceText(trace[i].path))

\* C5 witness: a catalog was written after a wrapped value and a whitespace
\* value were merged into it.
C5_Witness ==
  \E i, j \in 1..Len(trace) :
    /\ IsTranslateEvent(trace[i]) /\ Wrapped(SourceText(trace[i].path))
    /\ IsTranslateEvent(trace[j]) /\ SourceText(trace[j].path) = <<" ">>
    /\ trace[i].locale = trace[j].locale
    /\ Written(trace[i].locale)

KeyUnset == DEEPL_API_KEY = None \/ DEEPL_API_KEY.s = <<>>

LocalesLocated == routing.exists /\ SearchLocales(routing.content) # 0

DefaultLocated ==
  routing.exists /\ \E i \in 1..Len(routing.content) : IsDefaultDecl(routing.content[i])

\* Nothing has been called or written in this run.
Untouched == trace = <<>> /\ files = pre.files /\ ledger = pre.ledger

\* C6 as claimed: the run aborts with a non-zero exit, before any API call or
\* file write, when the credential is unset, the routing file is absent, or
\* either declaration (the locale list, the default locale) is not found.
C6_AbortsOnAnyMissingConfig ==
  (/\ Running \/ pc = "done"
   /\ KeyUnset \/ ~routing.exists \/ ~LocalesLocated \/ ~DefaultLocated)
    => /\ Untouched
       /\ pc = "done" => exitCode # 0

\* C6 amended: the run aborts with exit 1, before any API call or file write,
\* when the credential is unset, the routing file is absent or the locale
\* list is not found; when only the default locale is not found it goes on
\* with "de" as the default locale.
C6_AbortsOnMissingKeyOrLocales ==
  /\ (/\ Running \/ pc = "done"
      /\ KeyUnset \/ ~routing.exists \/ ~LocalesLocated)
       => /\ Untouched
          /\ pc \in {"boot", "main", "done"}
          /\ pc = "done" => exitCode = 1
  /\ (/\ ~KeyUnset /\ LocalesLocated /\ ~DefaultLocated
      /\ pc \in {"namespaces", "scan", "locale", "translate", "save_hashes", "done"})
       => /\ default_locale = de
          /\ pc = "done" => exitCode = 0

\* C6 witness: a run with a credential has ended with exit 1 on a routing file
\* that is there but has no locale list.
C6_Witness ==
  /\ pc = "done" /\ exitCode = 1
  /\ ~KeyUnset /\ routing.exists /\ ~LocalesLocated

\* C7: a run that writes the ledger keeps every key path the ledger file had
\* before it; an entry is left as it was or set to the hash of the key's
\* current source value, and a new entry is such a hash.
C7_LedgerNeverShrinks ==
  Completed =>
    /\ \A k \in DictKeys(pre.ledger.data) :
         /\ DictHas(ledger.data, k)
         /\ \/ DictGet(ledger.data, k) = DictGet(pre.ledger.data, k)
            \/ DictHas(src_keys, k) /\ DictGet(ledger.data, k) = get_hash(SourceText(k))
    /\ \A k \in DictKeys(ledger.data) \ DictKeys(pre.ledger.data) :
         DictHas(src_keys, k) /\ DictGet(ledger.data, k) = get_hash(SourceText(k))

\* C7 witness: a run wrote the ledger when the ledger file held a key path the
\* source catalog no longer has, and another whose value had changed.
C7_Witness ==
  /\ Completed
  /\ \E k \in DictKeys(pre.ledger.data) : ~DictHas(src_keys, k)
  /\ \E k \in DictKeys(pre.ledger.data) :
       DictGet(ledger.data, k) # DictGet(pre.ledger.data, k)

\* C9: target locales are handled one after another, a locale's catalog is
\* written before the next locale is begun, and the ledger file is written
\* last, after every target locale; while the run is going on, or after it
\* was killed, the ledger file is as the run found it.
C9_LedgerWrittenLast ==
  /\ (Running \/ pc = "crashed") => ledger = pre.ledger
  /\ \A i \in 1..Len(trace) :
       trace[i].ev = "ledger"
         => /\ i = Len(trace)
            /\ pc \in {"done", "edited"}
            /\ src_keys # <<>> =>
                 \A t \in 1..Len(target_locales) :
                   \E j \in 1..(i - 1) :
                     trace[j].ev \in {"batch", "unsupported"} /\ trace[j].locale = target_locales[t]
  /\ \A j \in 1..Len(trace) :
       trace[j].ev \in {"batch", "unsupported"}
         => \A i \in 1..(j - 1) :
              IsTranslateEvent(trace[i])
                => \E k \in (i + 1)..(j - 1) :
                     trace[k].ev = "write" /\ trace[k].locale = trace[i].locale
  /\ (trace # <<>> /\ trace[Len(trace)].ev = "write")
       => files[trace[Len(trace)].locale] = File(target_data)

\* C9 witness: the run was killed after it had written a catalog, with hashes
\* in memory that the ledger file does not have.
C9_Witness ==
  /\ pc = "crashed"
  /\ \E i \in 1..Len(trace) : trace[i].ev = "write"
  /\ ledger = pre.ledger
  /\ ~DictEq(hashes, ledger.data)

\* C10: no run writes the default locale's catalog: every catalog written is
\* that of another locale, and the source catalog is as the run found it.
C10_SourceCatalogNeverWritten ==
  pc \notin {"edited", "off"} =>
    /\ \A i \in 1..Len(trace) :
         trace[i].ev = "write" => trace[i].locale # get_default_locale(routing)
    /\ files[get_default_locale(routing)] = pre.files[get_default_locale(routing)]

\* C10 witness: a completed run that wrote a catalog, under a routing file
\* whose default locale DeepL could translate into.
C10_Witness ==
  /\ Completed
  /\ \E i \in 1..Len(trace) : trace[i].ev = "write"
  /\ Supported(get_default_locale(routing))

\* Both first-pass results equal the tree, and the second pass changed neither.
RoundTripHolds ==
  /\ rt.phase \in {"pass2", "done"} =>
       DictEq(rt.once[1], rt.tree) /\ DictEq(rt.once[2], rt.tree)
  /\ rt.phase = "done" =>
       DictEq(rt.empty, rt.once[1]) /\ DictEq(rt.self, rt.once[2])

\* C8 as claimed: for every nested tree, flattening it with collect_all_keys
\* and merging every (key path, value) pair back gives a tree equal to the
\* original when merged into an empty catalog, leaves the original unchanged
\* when merged into it, and merging twice equals merging once.
C8_RoundTripOfAnyTree == RoundTripHolds

HasDot(key) == \E i \in 1..Len(key) : key[i] = "."

\* No key holds a dot, and the empty key at the top level maps to no object.
RECURSIVE DotFree(_, _)
DotFree(d, top) ==
  \A i \in 1..Len(d) :
    /\ ~HasDot(d[i].k)
    /\ d[i].v.t = "dict" => (~(top /\ d[i].k = <<>>) /\ DotFree(d[i].v.d, FALSE))

\* No nested object is empty.
RECURSIVE NoEmptyObject(_)
NoEmptyObject(d) ==
  \A i \in 1..Len(d) : d[i].v.t = "dict" => (d[i].v.d # <<>> /\ NoEmptyObject(d[i].v.d))

Plain(d) == DotFree(d, TRUE) /\ NoEmptyObject(d)

\* C8 amended: for every nested tree in which no key contains a dot and the
\* empty key at the top level does not map to an object, merging the
\* flattened pairs into the tree leaves it unchanged, and, when no nested
\* object is empty either, merging them into an empty catalog gives a tree
\* equal to the original; for every tree, merging the pairs a second time
\* changes nothing.
C8_RoundTripOfPlainTree ==
  /\ (rt.phase \in {"pass2", "done"} /\ Plain(rt.tree)) => DictEq(rt.once[1], rt.tree)
  /\ (rt.phase \in {"pass2", "done"} /\ DotFree(rt.tree, TRUE)) => DictEq(rt.once[2], rt.tree)
  /\ rt.phase = "done" => DictEq(rt.empty, rt.once[1]) /\ DictEq(rt.self, rt.once[2])

\* C8 witness: the round trip of a plain tree with two keys at the top, one of
\* them an object with two keys, has ended.
C8_Witness ==
  /\ rt.phase = "done"
  /\ Plain(rt.tree)
  /\ Len(rt.tree) = 2
  /\ \E i \in 1..2 : rt.tree[i].v.t = "dict" /\ Len(rt.tree[i].v.d) = 2
  /\ Len(rt.flat) = 3

====
